---- MODULE Spec2Model ----
(***************************************************************************)
(* Model of src/main.py: the batch endpoint parse_documents, the chunker   *)
(* split_pdf and the per-document pipeline                                 *)
(*   call_upstage_api -> poll_for_result -> download_inference_result.     *)
(*                                                                         *)
(* Strings that the code builds by concatenation (paths, file contents)    *)
(* are sequences of tokens; "+" on strings is \o on token sequences and    *)
(* endswith(".html") looks at the last token.                              *)
(*                                                                         *)
(* The remote service is the environment: every HTTP response (its status  *)
(* code and body) is drawn from a small set.  The transport raising an     *)
(* exception is not among the modelled inputs.                             *)
(*                                                                         *)
(* background_tasks is FastAPI's BackgroundTasks: the tasks added by the   *)
(* handler are attached to the response the handler returns and are        *)
(* awaited one after another, in add_task order, once that response has    *)
(* been sent.  A handler that raises returns no response of its own, so    *)
(* the tasks it had added are never started.                               *)
(***************************************************************************)
EXTENDS Integers, Sequences, FiniteSets, TLC

\* ---------------------------------------------------------------- bounds
MaxFiles == 2
MaxWaits == 1
MaxPages == 25
MaxCalls == 2

\* ------------------------------------------------------ program constants
pages_per_chunk == 10
SizeThreshold == 50 * 1024 * 1024

input_folder == "input_data"
output_folder == "output_data"
output_dir == "split_data"

Ack == [status |-> "Processing initiated"]
NoResponse == [status |-> "none"]
ServerError == [status |-> "Internal Server Error"]

\* ------------------------------------------------------------ environment
\* What PdfReader(input_file) finds when split_pdf opens a file: a page count,
\* or Malformed when it raises.
Malformed == 0 - 1
Sizes == {SizeThreshold - 1, SizeThreshold, SizeThreshold + 1}
\* In a batch: an unreadable file, an empty document, and a document of one
\* full chunk and one partial chunk.  (Every page count up to MaxPages is
\* covered by SpecSplit.)
PageCases == {Malformed, 0, pages_per_chunk + 1}
\* The names in the input directory, chosen to be close to one another:
\* file i + 1 carries the name split_pdf gives to the first chunk of file i.
FileName(i) ==
    <<"doc", ".pdf">>
        \o [k \in 1..(3 * (i - 1)) |-> <<"_part_", "1", ".pdf">>[((k - 1) % 3) + 1]]

SubmitCodes == {202, 400}
StatusCodes == {200, 500}
DownloadCodes == {200, 404}
InProgress == {"in-progress", "None"}
StatusValues == {"completed", "failed"} \cup InProgress
HelloHtml == <<"<p>hello</p>">>
\* result_data of the download: whether it has 'content', whether that has
\* 'html', and the html string.
Payloads ==
    { [has_content |-> FALSE, has_html |-> FALSE, html |-> <<>>],
      [has_content |-> TRUE, has_html |-> FALSE, html |-> <<>>],
      [has_content |-> TRUE, has_html |-> TRUE, html |-> HelloHtml] }
EmptyPayload == [has_content |-> FALSE, has_html |-> FALSE, html |-> <<>>]
\* A response whose status code is not 200 has a body the code only prints.
StatusResponses ==
    [status_code : {200}, status : StatusValues]
        \cup [status_code : StatusCodes \ {200}, status : {"None"}]
DownloadResponses ==
    [status_code : {200}, result_data : Payloads]
        \cup [status_code : DownloadCodes \ {200}, result_data : {EmptyPayload}]

VARIABLES files, split_calls, ppc, fidx, tasks, st, response, split_data, out_fs,
          next_rid, split_in, split_out, dl_calls

vars == <<files, split_calls, ppc, fidx, tasks, st, response, split_data, out_fs,
          next_rid, split_in, split_out, dl_calls>>

\* ---------------------------------------------------------------- helpers
Min(a, b) == IF a < b THEN a ELSE b

\* os.path.join(dir, name)
path_join(dir, name) == <<dir, "/">> \o name

\* os.path.basename(path): what follows the last "/"
basename(path) ==
    LET slashes == {i \in 1..Len(path) : path[i] = "/"}
        last == IF slashes = {} THEN 0
                ELSE CHOOSE i \in slashes : \A j \in slashes : j <= i
    IN SubSeq(path, last + 1, Len(path))

endswith(s, suffix) == Len(s) > 0 /\ s[Len(s)] = suffix

\* "\n".join(parts)
RECURSIVE join_lines(_)
join_lines(parts) ==
    IF Len(parts) = 0 THEN <<>>
    ELSE IF Len(parts) = 1 THEN parts[1]
    ELSE parts[1] \o <<"\n">> \o join_lines(Tail(parts))

\* write_file with the file opened in mode 'a': the content is added at the end.
write_file_appends(fs, path, content) ==
    [p \in DOMAIN fs \cup {path} |->
        IF p = path THEN (IF p \in DOMAIN fs THEN fs[p] ELSE <<>>) \o content ELSE fs[p]]

\* fs with content written at path (open(path, 'w') truncates)
write_file(fs, path, content) ==
    [p \in DOMAIN fs \cup {path} |-> IF p = path THEN content ELSE fs[p]]

\* ------------------------------------------------------------- split_pdf
\* split_chunk with line 137's min() forgotten: a chunk always spans pages_per_chunk pages.
split_chunk_no_min(input_file, total_pages, start_page) ==
    [path |-> path_join(output_dir,
                  basename(input_file)
                    \o <<"_part_", ToString((start_page \div pages_per_chunk) + 1), ".pdf">>),
     index |-> (start_page \div pages_per_chunk) + 1,
     pages |-> [k \in 1..pages_per_chunk |-> start_page + k - 1]]

\* split_chunk with the chunk number of line 142 left out of the name.
split_chunk_unnumbered(input_file, total_pages, start_page) ==
    LET end_page == Min(start_page + pages_per_chunk, total_pages)
    IN [path |-> path_join(output_dir, basename(input_file) \o <<"_part", ".pdf">>),
        index |-> (start_page \div pages_per_chunk) + 1,
        pages |-> [k \in 1..(end_page - start_page) |-> start_page + k - 1]]

\* One iteration of "for start_page in range(0, total_pages, pages_per_chunk)".
split_chunk(input_file, total_pages, start_page) ==
    LET end_page == Min(start_page + pages_per_chunk, total_pages)
    IN [path |-> path_join(output_dir,
                     basename(input_file)
                       \o <<"_part_", ToString((start_page \div pages_per_chunk) + 1), ".pdf">>),
        index |-> (start_page \div pages_per_chunk) + 1,
        pages |-> [k \in 1..(end_page - start_page) |-> start_page + k - 1]]

RECURSIVE split_loop(_, _, _, _)
split_loop(input_file, total_pages, start_page, split_files) ==
    IF start_page >= total_pages THEN split_files
    ELSE split_loop(input_file, total_pages, start_page + pages_per_chunk,
                    Append(split_files, split_chunk(input_file, total_pages, start_page)))

\* split_pdf whose loop body runs once before its bound is tested.
split_pdf_at_least_one(input_file, total_pages) ==
    split_loop(input_file, total_pages, pages_per_chunk,
               <<split_chunk(input_file, total_pages, 0)>>)

\* The chunks split_pdf writes and returns, in order.
split_pdf(input_file, total_pages) == split_loop(input_file, total_pages, 0, <<>>)

\* split_pdf, lines 143-144: the staging directory after the chunks are written
RECURSIVE stage_chunks(_, _)
stage_chunks(fs, split_files) ==
    IF split_files = <<>> THEN fs
    ELSE stage_chunks(write_file(fs, Head(split_files).path, Head(split_files).pages),
                      Tail(split_files))

\* ------------------------------------------------ pipeline decision points
\* needs_split with ">=" for ">".
needs_split_at_threshold(size) == size >= SizeThreshold

\* parse_documents, line 113: "if os.path.getsize(input_path) > 50 * 1024 * 1024"
needs_split(size) == size > SizeThreshold

\* submit_next without the test of line 169: the poller is entered whatever the status code.
submit_next_unchecked(status_code) == "poll"

\* call_upstage_api, lines 169-177: where the pipeline goes after the submission
submit_next(status_code) == IF status_code = 202 THEN "poll" ELSE "rejected"

\* poll_next without the break of line 204: 'failed' is waited on like an in-progress status.
poll_next_failed_retries(status_code, status) ==
    IF status_code = 200
    THEN IF status = "completed" THEN "download" ELSE "sleep"
    ELSE "poll_error"

\* poll_next that stops at the first answer that is not 'completed'.
poll_next_gives_up(status_code, status) ==
    IF status_code = 200
    THEN IF status = "completed" THEN "download" ELSE "failed"
    ELSE "poll_error"

\* poll_next that takes a 200 answer without 'status' for a failure.
poll_next_missing_is_failure(status_code, status) ==
    IF status_code = 200
    THEN IF status = "completed" THEN "download"
         ELSE IF status \in {"failed", "None"} THEN "failed"
         ELSE "sleep"
    ELSE "poll_error"

\* poll_for_result, lines 190-210: where the pipeline goes after a status query
poll_next(status_code, status) ==
    IF status_code = 200
    THEN IF status = "completed" THEN "download"
         ELSE IF status = "failed" THEN "failed"
         ELSE "sleep"
    ELSE "poll_error"

\* What poll_for_result has observed of a status response.
observed(status_code, status) == IF status_code = 200 THEN status ELSE "http_error"

\* clean_html with every part ended by a newline instead of joined by one.
clean_html_newline_ended(result_data) ==
    LET clean_html_parts ==
            IF result_data.has_content /\ result_data.has_html
            THEN <<result_data.html>>
            ELSE <<>>
    IN join_lines(clean_html_parts) \o <<"\n">>

\* download_inference_result, lines 219-228
clean_html(result_data) ==
    LET clean_html_parts ==
            IF result_data.has_content /\ result_data.has_html
            THEN <<result_data.html>>
            ELSE <<>>
    IN join_lines(clean_html_parts)

\* html_path without the test of line 231: the suffix is always added.
html_path_always_appends(output_file) == output_file \o <<".html">>

\* download_inference_result, lines 231-232
html_path(output_file) ==
    IF ~endswith(output_file, ".html") THEN output_file \o <<".html">> ELSE output_file

\* download_next without the break of line 201: the poll loop goes on after the download.
download_next_no_break(status_code) == IF status_code = 200 THEN "poll" ELSE "download_error"

\* download_inference_result, lines 215 and 239: how the pipeline ends
download_next(status_code) == IF status_code = 200 THEN "written" ELSE "download_error"

\* download_inference_result, lines 215-240: the paths it writes, in order
download_writes(status_code, output_file) ==
    IF status_code = 200 THEN <<html_path(output_file)>> ELSE <<>>

\* download_inference_result without the test of line 215: the body is saved whatever the code.
download_inference_result_unchecked(fs, status_code, result_data, output_file) ==
    write_file(fs, html_path(output_file), clean_html(result_data))

\* download_inference_result as a function of the output directory's content
download_inference_result(fs, status_code, result_data, output_file) ==
    IF status_code = 200
    THEN write_file(fs, html_path(output_file), clean_html(result_data))
    ELSE fs

\* ------------------------------------------------------------------ state
Done == {"rejected", "failed", "poll_error", "download_error", "written"}

NewTask ==
    [pc |-> "scheduled", returned |-> FALSE, subs |-> 0, sub_code |-> 0, rid |-> 0,
     obs |-> <<>>, sleeps |-> 0, dls |-> 0, dl_code |-> 0, written |-> <<>>]

\* The input directory: up to MaxFiles regular files, in os.listdir order.
Directories ==
    UNION { { f \in [1..n -> [name : {FileName(i) : i \in 1..n}, size : Sizes]] :
                \A i \in 1..n : f[i].name = FileName(i) } : n \in 0..MaxFiles }

Idle_split_in == [input_file |-> <<>>, total_pages |-> 0]
Idle_split_out == [done |-> FALSE, chunks |-> <<>>]

Init ==
    /\ files \in Directories
    /\ split_calls = <<>>
    /\ ppc = "loop"
    /\ fidx = 1
    /\ tasks = <<>>
    /\ st = <<>>
    /\ response = NoResponse
    /\ split_data = <<>>
    /\ out_fs = <<>>
    /\ next_rid = 1
    /\ split_in = Idle_split_in
    /\ split_out = Idle_split_out
    /\ dl_calls = <<>>

\* ------------------------------------------------------- parse_documents
input_path(i) == path_join(input_folder, files[i].name)
output_path(i) == path_join(output_folder, files[i].name \o <<"_parsed">>)

\* lines 118-119: the document is scheduled whole
ScheduleWhole ==
    /\ ppc = "loop" /\ fidx <= Len(files)
    /\ ~needs_split(files[fidx].size)
    /\ tasks' = Append(tasks, [input_file |-> input_path(fidx),
                               output_file |-> output_path(fidx),
                               doc |-> fidx, part |-> 0])
    /\ st' = Append(st, NewTask)
    /\ fidx' = fidx + 1
    /\ UNCHANGED <<files, split_calls, ppc, response, split_data, out_fs, next_rid, split_in, split_out, dl_calls>>

\* lines 113-117: the document is split and one task is added per chunk
ScheduleChunks ==
    /\ ppc = "loop" /\ fidx <= Len(files)
    /\ needs_split(files[fidx].size)
    /\ \E n \in PageCases \ {Malformed} :
          LET split_files == split_pdf(input_path(fidx), n)
          IN /\ split_calls' = write_file(split_calls, fidx,
                                          [total_pages |-> n,
                                           split_files |-> [k \in 1..Len(split_files) |->
                                                               split_files[k].path]])
             /\ split_data' = stage_chunks(split_data, split_files)
             /\ tasks' = tasks \o
                   [k \in 1..Len(split_files) |->
                       [input_file |-> split_files[k].path,
                        output_file |-> split_files[k].path \o <<"_parsed">>,
                        doc |-> fidx, part |-> split_files[k].index]]
             /\ st' = st \o [k \in 1..Len(split_files) |-> NewTask]
    /\ fidx' = fidx + 1
    /\ UNCHANGED <<files, ppc, response, out_fs, next_rid, split_in, split_out, dl_calls>>

\* line 114 with PdfReader raising (line 126): the exception leaves the handler
SplitRaises ==
    /\ ppc = "loop" /\ fidx <= Len(files)
    /\ needs_split(files[fidx].size)
    /\ split_calls' = write_file(split_calls, fidx,
                                 [total_pages |-> Malformed, split_files |-> <<>>])
    /\ ppc' = "raised"
    /\ response' = ServerError
    /\ UNCHANGED <<files, fidx, tasks, st, split_data, out_fs, next_rid, split_in, split_out, dl_calls>>

\* line 121
ParseReturn ==
    /\ ppc = "loop" /\ fidx > Len(files)
    /\ ppc' = "returned"
    /\ response' = Ack
    /\ UNCHANGED <<files, split_calls, fidx, tasks, st, split_data, out_fs, next_rid, split_in, split_out, dl_calls>>

\* ------------------------------------------------ background task runner
\* runnable with the pipelines awaited inside the handler: a task runs as soon as it is added.
runnable_in_handler(i) ==
    /\ i \in 1..Len(tasks)
    /\ ~st[i].returned
    /\ \A j \in 1..(i - 1) : st[j].returned

\* runnable with a failed pipeline ending the run of the batch's tasks.
runnable_until_failure(i) ==
    /\ ppc = "returned"
    /\ i \in 1..Len(tasks)
    /\ ~st[i].returned
    /\ \A j \in 1..(i - 1) : st[j].returned /\ st[j].pc = "written"

\* Lines 117 and 119 (background_tasks.add_task): task i is the one being
\* awaited once the response is out and every task added before it has
\* returned.
runnable(i) ==
    /\ ppc = "returned"
    /\ i \in 1..Len(tasks)
    /\ ~st[i].returned
    /\ \A j \in 1..(i - 1) : st[j].returned

\* --------------------------------------------------------- the pipeline
\* call_upstage_api, lines 166-177: POST the document, read the status code
Submit(i) ==
    /\ runnable(i) /\ st[i].pc = "scheduled"
    /\ \E status_code \in SubmitCodes :
          /\ st' = [st EXCEPT ![i].pc = submit_next(status_code),
                              ![i].subs = @ + 1,
                              ![i].sub_code = status_code,
                              ![i].rid = IF status_code = 202 THEN next_rid ELSE 0]
          /\ next_rid' = IF status_code = 202 THEN next_rid + 1 ELSE next_rid
    /\ UNCHANGED <<files, split_calls, ppc, fidx, tasks, response, split_data, out_fs, split_in, split_out, dl_calls>>

\* poll_for_result, lines 188-210: one status query and the branch taken on it.
\* The remote answers a non-terminal status at most MaxWaits times per job.
Poll(i) ==
    /\ runnable(i) /\ st[i].pc = "poll"
    /\ \E r \in StatusResponses :
          /\ (r.status_code = 200 /\ r.status \in InProgress) => st[i].sleeps < MaxWaits
          /\ st' = [st EXCEPT ![i].pc = poll_next(r.status_code, r.status),
                              ![i].obs = Append(@, observed(r.status_code, r.status))]
    /\ UNCHANGED <<files, split_calls, ppc, fidx, tasks, response, split_data, out_fs, next_rid,
                   split_in, split_out, dl_calls>>

\* poll_for_result, line 207: time.sleep(5), then the loop queries again
Sleep(i) ==
    /\ runnable(i) /\ st[i].pc = "sleep"
    /\ st' = [st EXCEPT ![i].pc = "poll", ![i].sleeps = @ + 1]
    /\ UNCHANGED <<files, split_calls, ppc, fidx, tasks, response, split_data, out_fs, next_rid,
                   split_in, split_out, dl_calls>>

\* download_inference_result, lines 213-240, called from line 200
Download(i) ==
    /\ runnable(i) /\ st[i].pc = "download"
    /\ \E r \in DownloadResponses :
          /\ out_fs' = download_inference_result(out_fs, r.status_code, r.result_data,
                                                 tasks[i].output_file)
          /\ st' = [st EXCEPT ![i].pc = download_next(r.status_code),
                              ![i].dls = @ + 1,
                              ![i].dl_code = r.status_code,
                              ![i].written = @ \o download_writes(r.status_code,
                                                                  tasks[i].output_file)]
    /\ UNCHANGED <<files, split_calls, ppc, fidx, tasks, response, split_data, next_rid, split_in, split_out, dl_calls>>

\* call_upstage_api returns (after line 175 or 177): its job, with what it
\* had observed of it, is gone; what it wrote stays.
Return(i) ==
    /\ runnable(i) /\ st[i].pc \in Done
    /\ st' = [st EXCEPT ![i].returned = TRUE, ![i].obs = <<>>, ![i].sleeps = 0]
    /\ UNCHANGED <<files, split_calls, ppc, fidx, tasks, response, split_data, out_fs, next_rid,
                   split_in, split_out, dl_calls>>

TaskStep(i) == Submit(i) \/ Poll(i) \/ Sleep(i) \/ Download(i) \/ Return(i)

Next ==
    \/ ScheduleWhole
    \/ ScheduleChunks
    \/ SplitRaises
    \/ ParseReturn
    \/ \E i \in 1..Len(tasks) : Submit(i)
    \/ \E i \in 1..Len(tasks) : Poll(i)
    \/ \E i \in 1..Len(tasks) : Sleep(i)
    \/ \E i \in 1..Len(tasks) : Download(i)
    \/ \E i \in 1..Len(tasks) : Return(i)

Spec == Init /\ [][Next]_vars

\* ------------------------------------------------- split_pdf on its own
\* split_pdf applied to one input file of 0..MaxPages pages.
SplitInputs ==
    {path_join(input_folder, FileName(i)) : i \in 1..MaxFiles} \cup {FileName(1)}

SplitInit ==
    /\ files = <<>>
    /\ split_calls = <<>>
    /\ ppc = "loop"
    /\ fidx = 1
    /\ tasks = <<>>
    /\ st = <<>>
    /\ response = NoResponse
    /\ split_data = <<>>
    /\ out_fs = <<>>
    /\ next_rid = 1
    /\ split_in \in [input_file : SplitInputs, total_pages : 0..MaxPages]
    /\ split_out = Idle_split_out
    /\ dl_calls = <<>>

SplitApply ==
    /\ ~split_out.done
    /\ split_out' = [done |-> TRUE,
                     chunks |-> split_pdf(split_in.input_file, split_in.total_pages)]
    /\ split_data' = stage_chunks(split_data,
                                  split_pdf(split_in.input_file, split_in.total_pages))
    /\ UNCHANGED <<files, split_calls, ppc, fidx, tasks, st, response, out_fs, next_rid, split_in, dl_calls>>

SplitNext == SplitApply

SpecSplit == SplitInit /\ [][SplitNext]_vars

\* ------------------------------------- download_inference_result on its own
\* download_inference_result called up to MaxCalls times, one call after the
\* other, on targets with and without the ".html" suffix.
ByeHtml == <<"<h1>", "bye", "</h1>">>

DownloadTargets ==
    { path_join(output_folder, FileName(1) \o <<"_parsed">>),
      path_join(output_folder, FileName(1) \o <<"_parsed", ".html">>),
      path_join(output_folder, <<"page", ".html">>),
      path_join(output_folder, <<"page", ".html", ".bak">>) }

DownloadInputs ==
    DownloadResponses
        \cup [status_code : {200},
              result_data : {[has_content |-> TRUE, has_html |-> TRUE, html |-> ByeHtml]}]

DownloadInit ==
    /\ files = <<>>
    /\ split_calls = <<>>
    /\ ppc = "loop"
    /\ fidx = 1
    /\ tasks = <<>>
    /\ st = <<>>
    /\ response = NoResponse
    /\ split_data = <<>>
    /\ out_fs = <<>>
    /\ next_rid = 1
    /\ split_in = Idle_split_in
    /\ split_out = Idle_split_out
    /\ dl_calls = <<>>

DownloadCall ==
    /\ Len(dl_calls) < MaxCalls
    /\ \E r \in DownloadInputs, output_file \in DownloadTargets :
          /\ out_fs' = download_inference_result(out_fs, r.status_code, r.result_data,
                                                 output_file)
          /\ dl_calls' = Append(dl_calls, [status_code |-> r.status_code,
                                           result_data |-> r.result_data,
                                           output_file |-> output_file])
    /\ UNCHANGED <<files, split_calls, ppc, fidx, tasks, st, response, split_data, next_rid,
                   split_in, split_out>>

DownloadNext == DownloadCall

SpecDownload == DownloadInit /\ [][DownloadNext]_vars

\* ------------------------------------------------------------ vocabulary
Tasks == 1..Len(tasks)
TerminalObs == {"completed", "failed", "http_error"}
Failures == {"rejected", "failed", "poll_error", "download_error"}
\* The pipeline is in progress or at its end, not yet returned: its job exists.
Live(i) == st[i].pc # "scheduled" /\ ~st[i].returned
LastObs(i) == IF st[i].obs = <<>> THEN "nothing" ELSE st[i].obs[Len(st[i].obs)]
Accepted(i) == st[i].sub_code = 202 /\ st[i].rid # 0
ArtifactPath(i) == html_path(tasks[i].output_file)
HasArtifact(i) == ArtifactPath(i) \in DOMAIN out_fs

\* C1: within one pipeline the stages are sequential: a status query has been
\* issued only for a job whose submission returned 202 with a request_id; a
\* download has been attempted only after a status query returned
\* 'completed', at most once, and never for a rejected submission.
C1_StagesSequential ==
    \A i \in Tasks :
        /\ st[i].obs # <<>> => (st[i].subs = 1 /\ Accepted(i))
        /\ st[i].pc \in {"poll", "sleep", "download"} => Accepted(i)
        /\ st[i].dls > 0 => (Accepted(i) /\ (Live(i) => LastObs(i) = "completed"))
        /\ st[i].pc = "download" => (LastObs(i) = "completed" /\ st[i].dls = 0)
        /\ st[i].dls <= 1
        /\ (st[i].subs > 0 /\ st[i].sub_code # 202) =>
               (st[i].pc = "rejected" /\ st[i].obs = <<>> /\ st[i].dls = 0)

C1_Witness ==
    \E i, j \in Tasks :
        /\ st[i].pc = "rejected"
        /\ st[j].pc = "written" /\ st[j].dls = 1 /\ Len(st[j].obs) >= 2

\* C2: once poll_for_result has observed 'completed', 'failed' or a non-200
\* status response for a job it issues no further status query: a terminal
\* observation is always the last of the job's observed status sequence.
C2_TerminalIsLast ==
    \A i \in Tasks :
        \A k \in 1..Len(st[i].obs) :
            st[i].obs[k] \in TerminalObs =>
                (k = Len(st[i].obs) /\ st[i].pc \notin {"poll", "sleep"})

C2_Witness ==
    \E i, j \in Tasks :
        /\ st[i].returned /\ st[i].pc = "poll_error"
        /\ st[j].pc = "failed" /\ Len(st[j].obs) >= 2 /\ LastObs(j) = "failed"

\* C3: an output artifact exists for a job only if its submission was
\* accepted, a status query returned 'completed' and the download returned
\* 200; a rejected submission, a 'failed' status, a non-200 status response
\* and a failed download leave no artifact for the job.
C3_ArtifactOnlyOnSuccess ==
    /\ \A i \in Tasks :
          /\ (HasArtifact(i) \/ st[i].written # <<>>) =>
                 /\ Accepted(i) /\ st[i].dl_code = 200
                 /\ Live(i) => LastObs(i) = "completed"
          /\ st[i].pc \in Failures => (~HasArtifact(i) /\ st[i].written = <<>>)
          /\ (Live(i) /\ LastObs(i) # "completed") => ~HasArtifact(i)
    /\ DOMAIN out_fs = {ArtifactPath(i) : i \in {j \in Tasks : st[j].pc = "written"}}

C3_Witness ==
    \E i, j \in Tasks :
        /\ st[i].pc = "written" /\ HasArtifact(i)
        /\ st[j].pc = "download_error" /\ ~HasArtifact(j)

\* The outcome the job's own responses call for.
OwnOutcome(i) ==
    IF st[i].sub_code # 202 THEN "rejected"
    ELSE IF LastObs(i) = "failed" THEN "failed"
    ELSE IF LastObs(i) = "http_error" THEN "poll_error"
    ELSE IF st[i].dl_code = 200 THEN "written"
    ELSE "download_error"

Processed == 1..(fidx - 1)
TasksOf(d) == {i \in Tasks : tasks[i].doc = d}

\* C5: when split_pdf raises for an oversized document, every other document
\* of the batch, enumerated before or after it, still gets its pipeline
\* scheduled and run.
C5_SplitFailureIsolated ==
    ppc = "raised" =>
        \A d \in (1..Len(files)) \ {fidx} :
            /\ files[d].size < 50 * 1024 * 1024 => TasksOf(d) # {}
            /\ \A i \in TasksOf(d) :
                   st[i].returned \/ \E k \in Tasks : ENABLED TaskStep(k)

\* C6: parse_documents always ends by returning the acknowledgment
\* {"status": "Processing initiated"}.
C6_AlwaysAcknowledged == ppc # "loop" => response = Ack

\* No pipeline of the batch has submitted, polled, downloaded or written.
NoPipelineWork ==
    /\ \A i \in Tasks : st[i] = NewTask
    /\ out_fs = <<>>
    /\ next_rid = 1

\* C7: the acknowledgment is returned without waiting for any pipeline: no
\* step taken while the acknowledgment is not yet out, the step that returns
\* it included, leaves a document or chunk submitted, polled or downloaded.
C7_AckBeforeWork == [][response # Ack => NoPipelineWork']_vars

C7_Witness ==
    /\ response = Ack
    /\ Len(tasks) >= 2
    /\ NoPipelineWork

\* ceil(n / d), from its definition
Ceil(n, d) == CHOOSE c \in 0..n : c * d >= n /\ (c - 1) * d < n

RECURSIVE AllPages(_)
AllPages(chunks) ==
    IF chunks = <<>> THEN <<>> ELSE Head(chunks).pages \o AllPages(Tail(chunks))

\* C8: split_pdf produces ceil(total_pages / 10) chunks named
\* <basename>_part_1 .. _part_N in order; chunk k holds the pages
\* [(k-1)*10, min(k*10, total_pages)); the chunks are non-empty, at most 10
\* pages each, contiguous and non-overlapping, and cover total_pages pages.
C8_SplitChunks ==
    split_out.done =>
        LET n == split_in.total_pages
            chunks == split_out.chunks
            N == Len(chunks)
        IN /\ N = Ceil(n, 10)
           /\ \A k \in 1..N :
                 /\ chunks[k].index = k
                 /\ chunks[k].path =
                        <<"split_data", "/">> \o basename(split_in.input_file)
                            \o <<"_part_", ToString(k), ".pdf">>
                 /\ chunks[k].path \in DOMAIN split_data
                 /\ split_data[chunks[k].path] = chunks[k].pages
                 /\ Len(chunks[k].pages) >= 1 /\ Len(chunks[k].pages) <= 10
                 /\ Len(chunks[k].pages) = Min(k * 10, n) - (k - 1) * 10
                 /\ \A q \in 1..Len(chunks[k].pages) :
                        chunks[k].pages[q] = (k - 1) * 10 + q - 1
           /\ AllPages(chunks) = [q \in 1..n |-> q - 1]
           /\ Cardinality(DOMAIN split_data) = N

C8_Witness ==
    /\ split_out.done
    /\ Len(split_out.chunks) >= 3
    /\ Len(split_out.chunks[Len(split_out.chunks)].pages) < 10
    /\ Len(split_out.chunks[1].pages) = 10

\* C9 as stated: a processed document at or above the threshold has only
\* chunk tasks, a document under it exactly one whole task.
C9_RoutingAtOrAbove ==
    \A d \in Processed :
        IF files[d].size >= 50 * 1024 * 1024
        THEN \A i \in TasksOf(d) : tasks[i].part # 0
        ELSE Cardinality(TasksOf(d)) = 1 /\ \A i \in TasksOf(d) : tasks[i].part = 0

\* C9, amended: a processed document strictly above the threshold is routed
\* to the chunker and has one task per chunk split_pdf returns and no other;
\* a document at or under the threshold has exactly one task, for the whole
\* input file, and split_pdf has not read it.
C9_RoutingAbove ==
    \A d \in Processed :
        LET mine == SelectSeq(tasks, LAMBDA t : t.doc = d)
        IN IF files[d].size > 50 * 1024 * 1024
           THEN /\ d \in DOMAIN split_calls
                /\ LET split_files == split_calls[d].split_files
                   IN /\ Len(mine) = Len(split_files)
                      /\ \A k \in 1..Len(mine) :
                            /\ mine[k].part = k
                            /\ mine[k].input_file = split_files[k]
                            /\ mine[k].input_file \in DOMAIN split_data
                            /\ mine[k].input_file[1] = "split_data"
           ELSE /\ d \notin DOMAIN split_calls
                /\ Len(mine) = 1
                /\ mine[1].part = 0
                /\ mine[1].input_file = input_path(d)

C9_Witness ==
    \E i, j \in Tasks :
        /\ files[tasks[i].doc].size = 50 * 1024 * 1024
        /\ tasks[i].part = 0 /\ st[i].subs = 1
        /\ files[tasks[j].doc].size = 50 * 1024 * 1024 + 1
        /\ tasks[j].part = 2 /\ st[j].subs = 1

\* The tasks parse_documents is to schedule for a document it has processed.
Wanted(d) == IF d \in DOMAIN split_calls THEN Len(split_calls[d].split_files) ELSE 1

\* C10: each whole document and each chunk has exactly one pipeline run
\* scheduled; a run makes one submission, never more; it gets at most one
\* request_id, its own; it writes at most once, to its one target path.
C10_OneJobOneArtifact ==
    /\ \A d \in Processed : Cardinality(TasksOf(d)) = Wanted(d)
    /\ \A d \in (1..Len(files)) \ Processed : TasksOf(d) = {}
    /\ \A i, j \in Tasks :
          i # j => /\ tasks[i].input_file # tasks[j].input_file
                   /\ (st[i].rid # 0 => st[i].rid # st[j].rid)
    /\ \A i \in Tasks :
          /\ st[i].subs = (IF st[i].pc = "scheduled" THEN 0 ELSE 1)
          /\ Len(st[i].written) <= 1
          /\ \A k \in 1..Len(st[i].written) : st[i].written[k] = ArtifactPath(i)
          /\ st[i].pc = "written" => (Len(st[i].written) = 1 /\ HasArtifact(i))

C10_Witness ==
    \E i, j, k \in Tasks :
        /\ tasks[i].part = 0 /\ tasks[j].part = 1 /\ tasks[k].part = 2
        /\ tasks[j].doc = tasks[k].doc
        /\ \A t \in {i, j, k} : st[t].pc = "written" /\ Len(st[t].written) = 1

\* --------------------------------------------------------- concurrency
\* C11: pipelines of different documents proceed concurrently: while one
\* pipeline is waiting between two status queries, the pipeline of another
\* document that has not ended can take its next step.
C11_ConcurrentPipelines ==
    \A i, j \in Tasks :
        (tasks[i].doc # tasks[j].doc /\ st[i].pc = "sleep" /\ ~st[j].returned) =>
            ENABLED TaskStep(j)

\* ---------------------------------------------------------------- paths
\* C12: no two pipelines of a batch have the same artifact path, and a
\* pipeline writes at its own artifact path only.
C12_DistinctArtifactPaths ==
    \A j \in Tasks :
        /\ \A k \in 1..Len(st[j].written) : st[j].written[k] = ArtifactPath(j)
        /\ \A i \in 1..(j - 1) : ArtifactPath(i) # ArtifactPath(j)

C12_Witness ==
    \E i, j, k \in Tasks :
        /\ tasks[i].part = 1 /\ tasks[j].part = 2 /\ tasks[i].doc = tasks[j].doc
        /\ tasks[k].part = 0
        /\ basename(tasks[k].input_file) = basename(tasks[i].input_file)
        /\ \A t \in {i, j, k} : st[t].pc = "written" /\ HasArtifact(t)

\* C13: every artifact is located under output_data, its name ending in
\* '_parsed' then '.html'; none is under input_data or split_data.
C13_ArtifactsUnderOutput ==
    \A p \in DOMAIN out_fs :
        /\ p[1] = "output_data"
        /\ Len(p) >= 2
        /\ p[Len(p)] = ".html" /\ p[Len(p) - 1] = "_parsed"

\* ---------------------------------------------------------- termination
\* The batches in which no document is split: every pipeline is that of a
\* whole document. call_upstage_api and poll_for_result are the same for a chunk.
WholeInit == Init /\ \A i \in 1..Len(files) : ~needs_split(files[i].size)

WholeNext ==
    \/ ScheduleWhole
    \/ ParseReturn
    \/ \E i \in 1..Len(tasks) : Submit(i)
    \/ \E i \in 1..Len(tasks) : Poll(i)
    \/ \E i \in 1..Len(tasks) : Sleep(i)
    \/ \E i \in 1..Len(tasks) : Download(i)
    \/ \E i \in 1..Len(tasks) : Return(i)

\* The running coroutine is never suspended for ever: a step that can be
\* taken is eventually taken.
FairSpec == WholeInit /\ [][WholeNext]_vars /\ WF_vars(WholeNext)

\* No batch of whole documents has more tasks than this.
TaskIds == 1..MaxFiles

\* C14: once a status query of a job is answered 'completed', 'failed' or
\* non-200, the poller returns and the pipeline ends; the poller leaves its
\* loop on such an answer only, and as long as the answers are 200 with
\* another status its next wait or query can always be taken.
C14_PollTermination ==
    /\ [][\A i \in Tasks :
            (st[i].pc \in {"poll", "sleep"} /\ st'[i].pc \notin {"poll", "sleep"}) =>
                LastObs(i)' \in TerminalObs]_vars
    /\ [](\A i \in Tasks : st[i].pc \in {"poll", "sleep"} => ENABLED TaskStep(i))
    /\ \A i \in TaskIds :
          (i \in Tasks /\ Live(i) /\ LastObs(i) \in TerminalObs)
              ~> (i \in Tasks /\ st[i].returned)

C14_Witness ==
    \E i \in Tasks :
        /\ Live(i) /\ Len(st[i].obs) = MaxWaits + 1
        /\ LastObs(i) \in TerminalObs
        /\ st[i].pc \in Done

\* ------------------------------------------------------------- artifacts
Calls == 1..Len(dl_calls)
LastCall == dl_calls[Len(dl_calls)]
\* What the claims say of a call: the path of its artifact and the content.
SuffixedPath(output_file) ==
    IF output_file[Len(output_file)] = ".html" THEN output_file
    ELSE output_file \o <<".html">>
ContentHtml(result_data) ==
    IF result_data.has_content /\ result_data.has_html THEN result_data.html ELSE <<>>

\* C15: after a call answered 200 the artifact holds exactly the payload's
\* content.html when it is present, and is the empty file when 'content' or
\* 'content.html' is absent; the file is written in both cases.
C15_ArtifactContent ==
    (dl_calls # <<>> /\ LastCall.status_code = 200) =>
        /\ SuffixedPath(LastCall.output_file) \in DOMAIN out_fs
        /\ out_fs[SuffixedPath(LastCall.output_file)] = ContentHtml(LastCall.result_data)

C15_Witness ==
    /\ Len(dl_calls) = 2
    /\ dl_calls[1].status_code = 200 /\ dl_calls[2].status_code = 200
    /\ dl_calls[1].result_data.html = ByeHtml
    /\ ~dl_calls[2].result_data.has_content
    /\ SuffixedPath(dl_calls[1].output_file) # SuffixedPath(dl_calls[2].output_file)
    /\ out_fs[SuffixedPath(dl_calls[1].output_file)] = ByeHtml
    /\ out_fs[SuffixedPath(dl_calls[2].output_file)] = <<>>

\* C16: a target that does not end in '.html' is written at target + '.html',
\* a target that ends in '.html' is written at the unchanged path, nothing
\* else is written, and enforcing the suffix on a written path changes nothing.
C16_SuffixEnforced ==
    /\ DOMAIN out_fs =
           {SuffixedPath(dl_calls[k].output_file) :
                k \in {c \in Calls : dl_calls[c].status_code = 200}}
    /\ \A p \in DOMAIN out_fs : html_path(p) = p

C16_Witness ==
    /\ Len(dl_calls) = 2
    /\ dl_calls[1].status_code = 200 /\ dl_calls[2].status_code = 200
    /\ dl_calls[1].output_file[Len(dl_calls[1].output_file)] = "_parsed"
    /\ dl_calls[2].output_file = dl_calls[1].output_file \o <<".html">>
    /\ DOMAIN out_fs = {dl_calls[2].output_file}

\* C17: a call answered 200 leaves at its path the content of its own payload
\* only, whatever the file held before (overwrite, never append), and leaves
\* every other file as it was; a call that repeats the previous one, same
\* target and same payload, changes nothing.
C17_IdempotentOverwrite ==
    [][(dl_calls' # dl_calls /\ LastCall'.status_code = 200) =>
          LET path == SuffixedPath(LastCall'.output_file)
          IN /\ out_fs'[path] = ContentHtml(LastCall'.result_data)
             /\ \A q \in DOMAIN out_fs \ {path} : out_fs'[q] = out_fs[q]
             /\ (dl_calls # <<>> /\ LastCall = LastCall') => out_fs' = out_fs]_vars

C17_Witness ==
    /\ Len(dl_calls) = 2
    /\ dl_calls[1].status_code = 200 /\ dl_calls[2].status_code = 200
    /\ dl_calls[1].output_file = dl_calls[2].output_file
    /\ dl_calls[1].result_data.html = ByeHtml
    /\ dl_calls[2].result_data.html = HelloHtml
    /\ out_fs[SuffixedPath(dl_calls[2].output_file)] = HelloHtml

\* --------------------------------------------------------------- cadence
\* The outcome of one status query, from what the poller observed.
Outcome(o) ==
    IF o = "completed" \/ o = "failed" THEN o
    ELSE IF o = "http_error" THEN "error"
    ELSE "in-progress"

\* One wait per in-progress answer, each followed by one query: at a query
\* every answer so far has been waited for; during a wait and after the
\* loop the last answer is the only one not waited for, and it is
\* in-progress during a wait and terminal after the loop.
PollCadence(i) ==
    /\ \A k \in 1..(Len(st[i].obs) - 1) : Outcome(st[i].obs[k]) = "in-progress"
    /\ st[i].pc = "rejected" => st[i].obs = <<>> /\ st[i].sleeps = 0
    /\ st[i].pc = "poll" => Len(st[i].obs) = st[i].sleeps
    /\ st[i].pc = "sleep" =>
          Len(st[i].obs) = st[i].sleeps + 1 /\ Outcome(LastObs(i)) = "in-progress"
    /\ st[i].pc \in {"download", "written", "download_error", "failed", "poll_error"} =>
          Len(st[i].obs) = st[i].sleeps + 1 /\ Outcome(LastObs(i)) # "in-progress"

\* C18 as stated: the poller has only the three outcomes in-progress,
\* completed and failed, with one wait and one new query per in-progress
\* answer, no wait before the first query and none after a terminal answer.
C18_ThreeOutcomes ==
    \A i \in Tasks :
        Live(i) =>
            /\ PollCadence(i)
            /\ \A k \in 1..Len(st[i].obs) :
                  Outcome(st[i].obs[k]) \in {"in-progress", "completed", "failed"}

\* C18, amended: a 200 answer has the three outcomes in-progress, completed
\* and failed, and an answer that is not 200 is a fourth outcome, which ends
\* the polling; every 200 answer whose status is neither 'completed' nor
\* 'failed', a missing status included, causes one wait followed by one new
\* query; there is no wait before the first query or after a terminal answer.
C18_PollCadence ==
    \A i \in Tasks :
        Live(i) =>
            /\ PollCadence(i)
            /\ st[i].pc = "poll_error" <=>
                  (st[i].obs # <<>> /\ Outcome(LastObs(i)) = "error")
            /\ st[i].pc = "failed" <=>
                  (st[i].obs # <<>> /\ Outcome(LastObs(i)) = "failed")
            /\ st[i].pc \in {"download", "written", "download_error"} <=>
                  (st[i].obs # <<>> /\ Outcome(LastObs(i)) = "completed")

C18_Witness ==
    \E i \in Tasks :
        /\ Live(i) /\ st[i].pc = "poll"
        /\ st[i].sleeps = MaxWaits /\ Len(st[i].obs) = MaxWaits
        /\ st[i].obs[1] = "None"

\* ------------------------------------------------------ empty documents
\* The oversized documents split_pdf found to have no page.
EmptyDocs == {d \in DOMAIN split_calls : split_calls[d].total_pages = 0}

\* C19: an oversized document with zero pages gets an empty chunk list and
\* no pipeline: no task, hence no submission, job or artifact, exists for it;
\* it does not end the handler, the batch is acknowledged, and every other
\* document has its tasks scheduled.
C19_EmptyDocument ==
    \A d \in EmptyDocs :
        /\ split_calls[d].split_files = <<>>
        /\ TasksOf(d) = {}
        /\ DOMAIN out_fs \subseteq {ArtifactPath(i) : i \in Tasks}
        /\ ~(ppc = "raised" /\ fidx = d)
        /\ ppc = "returned" =>
              /\ response = Ack
              /\ \A e \in 1..Len(files) :
                    Cardinality(TasksOf(e)) =
                        (IF e \in DOMAIN split_calls
                         THEN Ceil(split_calls[e].total_pages, pages_per_chunk)
                         ELSE 1)

C19_Witness ==
    /\ 1 \in EmptyDocs
    /\ response = Ack
    /\ \E i \in Tasks : tasks[i].doc = 2 /\ st[i].pc = "written" /\ HasArtifact(i)

====
